---- MODULE Spec2Model ----
(***************************************************************************)
(* Model of the grafotest-api worker (src/src/index.ts): the fetch handler *)
(* with its two generation routes, POST /analyze and POST                  *)
(* /analyze-contextual, and the recovery of a JSON value from the text the *)
(* upstream model returns.                                                 *)
(*                                                                         *)
(* Text is a sequence of one-character strings.  The JSON reader and       *)
(* writer below are JSON.parse and JSON.stringify restricted to text over  *)
(* Alphabet: objects, arrays, strings without escapes and unsigned         *)
(* integers.  A letter outside a string literal is a syntax error, as it   *)
(* is for JSON.parse on every text over this alphabet.                     *)
(***************************************************************************)
EXTENDS Integers, Sequences, FiniteSets, TLC

LBRACE == "{"
RBRACE == "}"
LBRACKET == "["
RBRACKET == "]"
QUOTE == "\""
COLON == ":"
COMMA == ","
SPACE == " "
NL == "\n"

Alphabet == {LBRACE, RBRACE, LBRACKET, RBRACKET, QUOTE, COLON, COMMA, SPACE, NL, "a", "1"}

\* The whitespace JSON.parse skips between tokens.
WS == {SPACE, NL}

DigitChars == <<"0", "1", "2", "3", "4", "5", "6", "7", "8", "9">>

Digits == {"1"}

-----------------------------------------------------------------------------
(* JSON values.  Every value is a record of the same shape, so that any two *)
(* values can be compared.                                                  *)

NoValue == [t |-> "none", n |-> 0, s |-> <<>>, ks |-> <<>>, vs |-> <<>>]

JNum(n) == [t |-> "number", n |-> n, s |-> <<>>, ks |-> <<>>, vs |-> <<>>]

JStr(s) == [t |-> "string", n |-> 0, s |-> s, ks |-> <<>>, vs |-> <<>>]

JArr(vs) == [t |-> "array", n |-> 0, s |-> <<>>, ks |-> <<>>, vs |-> vs]

JObj(ks, vs) == [t |-> "object", n |-> 0, s |-> <<>>, ks |-> ks, vs |-> vs]

\* A property key that JavaScript treats as an array index: such keys are
\* enumerated first, in ascending numeric order, before the other keys.
IsIndexKey(k) == Len(k) > 0 /\ \A i \in 1..Len(k) : k[i] \in Digits

\* Number of leading index keys of a key list.
RECURSIVE IndexPrefix(_, _)
IndexPrefix(ks, i) ==
    IF i <= Len(ks) /\ IsIndexKey(ks[i]) THEN IndexPrefix(ks, i + 1) ELSE i - 1

InsertAt(seq, p, x) == SubSeq(seq, 1, p - 1) \o <<x>> \o SubSeq(seq, p, Len(seq))

\* Property definition on an object under construction: a repeated key keeps
\* its place and takes the later value; a new index key goes among the index
\* keys in ascending order; any other new key goes last.
ObjPut(o, k, v) ==
    IF \E i \in 1..Len(o.ks) : o.ks[i] = k
    THEN LET i == CHOOSE i \in 1..Len(o.ks) : o.ks[i] = k
         IN  JObj(o.ks, [o.vs EXCEPT ![i] = v])
    ELSE IF IsIndexKey(k)
    THEN LET np == IndexPrefix(o.ks, 1)
             p == 1 + Cardinality({i \in 1..np : Len(o.ks[i]) < Len(k)})
         IN  JObj(InsertAt(o.ks, p, k), InsertAt(o.vs, p, v))
    ELSE JObj(Append(o.ks, k), Append(o.vs, v))

-----------------------------------------------------------------------------
(* JSON.parse *)

Fail == [ok |-> FALSE, val |-> NoValue, next |-> 0]

Ok(v, next) == [ok |-> TRUE, val |-> v, next |-> next]

RECURSIVE SkipWs(_, _)
SkipWs(s, i) == IF i <= Len(s) /\ s[i] \in WS THEN SkipWs(s, i + 1) ELSE i

\* Position of the quote closing a string literal whose content starts at j;
\* 0 when the literal is unterminated or holds a control character.
RECURSIVE StringEnd(_, _)
StringEnd(s, j) ==
    IF j > Len(s) THEN 0
    ELSE IF s[j] = QUOTE THEN j
    ELSE IF s[j] = NL THEN 0
    ELSE StringEnd(s, j + 1)

ParseString(s, i) ==
    LET e == StringEnd(s, i + 1)
    IN  IF e = 0 THEN Fail ELSE Ok(JStr(SubSeq(s, i + 1, e - 1)), e + 1)

RECURSIVE DigitsEnd(_, _)
DigitsEnd(s, j) == IF j <= Len(s) /\ s[j] \in Digits THEN DigitsEnd(s, j + 1) ELSE j

DigitValue(c) == (CHOOSE d \in 1..10 : DigitChars[d] = c) - 1

RECURSIVE DigitsToNat(_)
DigitsToNat(ds) ==
    IF ds = <<>> THEN 0
    ELSE 10 * DigitsToNat(SubSeq(ds, 1, Len(ds) - 1)) + DigitValue(ds[Len(ds)])

ParseNumber(s, i) ==
    LET e == DigitsEnd(s, i)
    IN  Ok(JNum(DigitsToNat(SubSeq(s, i, e - 1))), e)

RECURSIVE ParseValue(_, _), ParseElements(_, _, _), ParseMembers(_, _, _)

ParseValue(s, i0) ==
    LET i == SkipWs(s, i0)
    IN  IF i > Len(s) THEN Fail
        ELSE IF s[i] = LBRACE
        THEN LET j == SkipWs(s, i + 1)
             IN  IF j <= Len(s) /\ s[j] = RBRACE
                 THEN Ok(JObj(<<>>, <<>>), j + 1)
                 ELSE ParseMembers(s, j, JObj(<<>>, <<>>))
        ELSE IF s[i] = LBRACKET
        THEN LET j == SkipWs(s, i + 1)
             IN  IF j <= Len(s) /\ s[j] = RBRACKET
                 THEN Ok(JArr(<<>>), j + 1)
                 ELSE ParseElements(s, j, <<>>)
        ELSE IF s[i] = QUOTE THEN ParseString(s, i)
        ELSE IF s[i] \in Digits THEN ParseNumber(s, i)
        ELSE Fail

ParseElements(s, i, acc) ==
    LET v == ParseValue(s, i)
        j == SkipWs(s, v.next)
    IN  IF ~v.ok \/ j > Len(s) THEN Fail
        ELSE IF s[j] = COMMA THEN ParseElements(s, j + 1, Append(acc, v.val))
        ELSE IF s[j] = RBRACKET THEN Ok(JArr(Append(acc, v.val)), j + 1)
        ELSE Fail

ParseMembers(s, i0, o) ==
    LET i == SkipWs(s, i0)
        k == IF i <= Len(s) /\ s[i] = QUOTE THEN ParseString(s, i) ELSE Fail
        c == SkipWs(s, k.next)
        v == IF k.ok /\ c <= Len(s) /\ s[c] = COLON THEN ParseValue(s, c + 1) ELSE Fail
        j == SkipWs(s, v.next)
    IN  IF ~v.ok \/ j > Len(s) THEN Fail
        ELSE IF s[j] = COMMA THEN ParseMembers(s, j + 1, ObjPut(o, k.val.s, v.val))
        ELSE IF s[j] = RBRACE THEN Ok(ObjPut(o, k.val.s, v.val), j + 1)
        ELSE Fail

\* JSON.parse(text): one value, surrounded by optional whitespace, and nothing
\* else; ok = FALSE stands for the SyntaxError it throws.
JSONParse(s) ==
    LET v == ParseValue(s, 1)
    IN  IF v.ok /\ SkipWs(s, v.next) = Len(s) + 1 THEN v ELSE Fail

-----------------------------------------------------------------------------
(* JSON.stringify *)

RECURSIVE NatToDigits(_)
NatToDigits(n) ==
    IF n < 10 THEN <<DigitChars[n + 1]>>
    ELSE NatToDigits(n \div 10) \o <<DigitChars[(n % 10) + 1]>>

RECURSIVE JSONStringify(_), StringifyElements(_, _), StringifyMembers(_, _)

JSONStringify(v) ==
    IF v.t = "number" THEN NatToDigits(v.n)
    ELSE IF v.t = "string" THEN <<QUOTE>> \o v.s \o <<QUOTE>>
    ELSE IF v.t = "array" THEN <<LBRACKET>> \o StringifyElements(v.vs, 1) \o <<RBRACKET>>
    ELSE <<LBRACE>> \o StringifyMembers(v, 1) \o <<RBRACE>>

StringifyElements(vs, i) ==
    IF i > Len(vs) THEN <<>>
    ELSE (IF i > 1 THEN <<COMMA>> ELSE <<>>) \o JSONStringify(vs[i])
         \o StringifyElements(vs, i + 1)

StringifyMembers(o, i) ==
    IF i > Len(o.ks) THEN <<>>
    ELSE (IF i > 1 THEN <<COMMA>> ELSE <<>>) \o <<QUOTE>> \o o.ks[i] \o <<QUOTE, COLON>>
         \o JSONStringify(o.vs[i]) \o StringifyMembers(o, i + 1)

-----------------------------------------------------------------------------
(* String operations used by the handler; indexes are 0-based as in the     *)
(* source.                                                                  *)

\* A faulty variant of IndexOf: the last position is taken instead of the first.
IndexOfTakesLast(s, c) ==
    IF \E i \in 1..Len(s) : s[i] = c
    THEN (CHOOSE i \in 1..Len(s) : s[i] = c /\ \A j \in (i + 1)..Len(s) : s[j] # c) - 1
    ELSE -1

\* String.prototype.indexOf: first position of c, or -1.
IndexOf(s, c) ==
    IF \E i \in 1..Len(s) : s[i] = c
    THEN (CHOOSE i \in 1..Len(s) : s[i] = c /\ \A j \in 1..(i - 1) : s[j] # c) - 1
    ELSE -1

\* A faulty variant of LastIndexOf: the first position is taken instead of the last.
LastIndexOfTakesFirst(s, c) == IndexOf(s, c)

\* String.prototype.lastIndexOf: last position of c, or -1.
LastIndexOf(s, c) ==
    IF \E i \in 1..Len(s) : s[i] = c
    THEN (CHOOSE i \in 1..Len(s) : s[i] = c /\ \A j \in (i + 1)..Len(s) : s[j] # c) - 1
    ELSE -1

Min(a, b) == IF a <= b THEN a ELSE b

\* String.prototype.slice(from, to) for non-negative arguments: the characters
\* at positions from .. to - 1, empty when to <= from.
Slice(s, from, to) ==
    LET f == Min(from, Len(s))
        t == Min(to, Len(s))
    IN  IF t <= f THEN <<>> ELSE SubSeq(s, f + 1, t)

\* parts.map(p => p.text).join('\n'): join writes an undefined element as the
\* empty string.
RECURSIVE Join(_)
Join(parts) ==
    IF parts = <<>> THEN <<>>
    ELSE LET text == IF parts[1].hasText THEN parts[1].text ELSE <<>>
         IN  IF Len(parts) = 1 THEN text ELSE text \o <<NL>> \o Join(Tail(parts))

\* data?.candidates?.[0]?.content?.parts?.map(...).join('\n') ?? ''
RawTextOf(data) == IF data.hasParts THEN Join(data.parts) ELSE <<>>

-----------------------------------------------------------------------------
(* Response bodies *)

\* new Response(null, ...)
NullBody == [shape |-> "null"]

\* JSON.stringify({ error: msg })
ErrorBody(msg) == [shape |-> "error", error |-> msg]

HealthBody == [shape |-> "health", status |-> "ok", service |-> "grafotest-api"]

ContextualFallbackBody ==
    [shape |-> "assessment",
     suitabilityScore |-> 0,
     relevanceExplanation |-> "Terjadi kegagalan analisis kontekstual.",
     actionableAdvice |-> <<>>,
     specificRisks |-> <<>>]

\* JSON.stringify(parsed)
ParsedBody(v) == [shape |-> "json", json |-> JSONStringify(v)]

-----------------------------------------------------------------------------
(* Bounds and inputs *)

\* Longest list of parts in an upstream reply.
MaxParts == 3

\* Number of requests in flight together in the concurrent specification.
NumReqs == 2

Reqs == 1..NumReqs

\* Values of the imageBase64 field of a request body: absent (or empty), a
\* data URL, or a truthy value that is not a string.
ImageAbsent == ""
ImageData == "data:image/jpeg;base64,AAAA"
ImageNotString == "<number>"

\* A request as the handler sees it: req.method, url.pathname and what
\* req.json() yields (valid = FALSE: it rejects).
Bodies ==
    {[valid |-> FALSE, imageBase64 |-> ImageAbsent, context |-> ""]}
    \cup [valid : {TRUE},
          imageBase64 : {ImageAbsent, ImageData, ImageNotString},
          context : {"", "ctx"}]

Requests ==
    [method : {"OPTIONS", "GET", "POST"},
     pathname : {"/health", "/analyze", "/analyze-contextual", "/"},
     body : Bodies]

\* env.GEMINI_API_KEY: unset or set.
Envs == {"", "key"}

\* What fetch() to the upstream does: it rejects, or resolves to a response
\* with ok true or false.
FetchResults == {"throws", "ok", "not-ok"}

\* What geminiRes.text() yields on a non-OK reply: it rejects, or an error text.
ErrTexts == {[valid |-> FALSE, text |-> ""], [valid |-> TRUE, text |-> "API key not valid"]}

Part(text) == [hasText |-> TRUE, text |-> text]

\* The parts an upstream reply is assembled from: text fragments, and a part
\* that has no text field.
Parts ==
    { Part(<<LBRACE, QUOTE, "a", QUOTE, COLON, "1", RBRACE>>),
      Part(<<LBRACE>>),
      Part(<<RBRACE>>),
      Part(<<QUOTE, "a", QUOTE, COLON, "1">>),
      Part(<<LBRACKET, "1", RBRACKET>>),
      Part(<<LBRACKET, LBRACE, RBRACE, COMMA, LBRACE, RBRACE, RBRACKET>>),
      Part(<<QUOTE, RBRACE, LBRACE, QUOTE>>),
      Part(<<"1">>),
      Part(<<"a">>),
      Part(<<LBRACE, QUOTE, "a", QUOTE, COLON, "1", COMMA, QUOTE, "1", QUOTE, COLON, "1", "1", RBRACE>>),
      [hasText |-> FALSE, text |-> <<>>] }

SeqsUpTo(S, n) == UNION {[1..k -> S] : k \in 0..n}

\* What geminiRes.json() yields: it rejects (valid = FALSE), a reply without
\* candidates[0].content.parts, or a reply with a list of parts.
InvalidData == [valid |-> FALSE, hasParts |-> FALSE, parts |-> <<>>]

Datas ==
    {InvalidData, [valid |-> TRUE, hasParts |-> FALSE, parts |-> <<>>]}
    \cup [valid : {TRUE}, hasParts : {TRUE}, parts : SeqsUpTo(Parts, MaxParts)]

\* The smaller inputs of the concurrent specification.
ConcRequests ==
    { [method |-> "POST", pathname |-> "/analyze",
       body |-> [valid |-> TRUE, imageBase64 |-> ImageData, context |-> ""]],
      [method |-> "POST", pathname |-> "/analyze-contextual",
       body |-> [valid |-> TRUE, imageBase64 |-> ImageData, context |-> "ctx"]],
      [method |-> "POST", pathname |-> "/analyze",
       body |-> [valid |-> TRUE, imageBase64 |-> ImageAbsent, context |-> ""]],
      [method |-> "GET", pathname |-> "/health",
       body |-> [valid |-> FALSE, imageBase64 |-> ImageAbsent, context |-> ""]] }

ConcEnvs == {"key"}

ConcDatas ==
    { InvalidData,
      [valid |-> TRUE, hasParts |-> FALSE, parts |-> <<>>],
      [valid |-> TRUE, hasParts |-> TRUE,
       parts |-> <<Part(<<"a">>), Part(<<LBRACE, QUOTE, "a", QUOTE, COLON, "1", RBRACE>>)>>],
      [valid |-> TRUE, hasParts |-> TRUE,
       parts |-> <<Part(<<LBRACKET, "1", RBRACKET>>)>>],
      [valid |-> TRUE, hasParts |-> TRUE,
       parts |-> <<Part(<<RBRACE>>), Part(<<LBRACE>>)>>],
      [valid |-> TRUE, hasParts |-> TRUE,
       parts |-> <<Part(<<LBRACE, RBRACE>>), Part(<<LBRACE, RBRACE>>)>>] }

-----------------------------------------------------------------------------
(* State *)

VARIABLES
    corsHeaders,    \* the module-level headers object every response is built with
    pc,             \* pc[r]: where invocation r of fetch() stands
    request,        \* request[r]: the request it was called with
    env,            \* env[r]: the GEMINI_API_KEY it was called with
    upstream,       \* upstream[r]: what the upstream service gave invocation r
    geminiRes,      \* the locals of invocation r, named as in the source
    errText,
    data,
    rawText,
    start,
    end,
    parsed,
    err,            \* the error caught by the route's catch block ("" when none)
    response,       \* the Response the invocation resolved to
    upstreamCalls,  \* calls of fetch() to the upstream made by invocation r
    parseCalls,     \* calls of JSON.parse made by invocation r
    sent            \* responses returned by invocation r

locals ==
    <<pc, request, env, upstream, geminiRes, errText, data, rawText, start, end,
      parsed, err, response, upstreamCalls, parseCalls, sent>>

vars == <<corsHeaders, locals>>

CorsHeaders ==
    [ContentType |-> "application/json",
     AccessControlAllowOrigin |-> "*",
     AccessControlAllowMethods |-> "GET, POST, OPTIONS",
     AccessControlAllowHeaders |-> "Content-Type"]

NoRequest ==
    [method |-> "", pathname |-> "",
     body |-> [valid |-> FALSE, imageBase64 |-> ImageAbsent, context |-> ""]]

NoUpstream == [fetch |-> "none", text |-> [valid |-> FALSE, text |-> ""], data |-> InvalidData]

NoResponse == [status |-> 0, headers |-> [none |-> TRUE], body |-> [shape |-> "none"]]

\* The locals of one invocation before it is called.
Fresh ==
    [pc |-> "idle", request |-> NoRequest, env |-> "", upstream |-> NoUpstream,
     geminiRes |-> "none", errText |-> "", data |-> InvalidData, rawText |-> <<>>,
     start |-> -1, end |-> -1, parsed |-> Fail, err |-> "", response |-> NoResponse,
     upstreamCalls |-> 0, parseCalls |-> 0, sent |-> 0]

\* The locals of invocation r, as one record.
L(r) ==
    [pc |-> pc[r], request |-> request[r], env |-> env[r], upstream |-> upstream[r],
     geminiRes |-> geminiRes[r], errText |-> errText[r], data |-> data[r],
     rawText |-> rawText[r], start |-> start[r], end |-> end[r], parsed |-> parsed[r],
     err |-> err[r], response |-> response[r], upstreamCalls |-> upstreamCalls[r],
     parseCalls |-> parseCalls[r], sent |-> sent[r]]

\* One step of invocation r: its locals become n.  The locals live in the
\* closure of one call of fetch(); the module-level corsHeaders is only read.
Update(r, n) ==
    /\ pc' = [pc EXCEPT ![r] = n.pc]
    /\ request' = [request EXCEPT ![r] = n.request]
    /\ env' = [env EXCEPT ![r] = n.env]
    /\ upstream' = [upstream EXCEPT ![r] = n.upstream]
    /\ geminiRes' = [geminiRes EXCEPT ![r] = n.geminiRes]
    /\ errText' = [errText EXCEPT ![r] = n.errText]
    /\ data' = [data EXCEPT ![r] = n.data]
    /\ rawText' = [rawText EXCEPT ![r] = n.rawText]
    /\ start' = [start EXCEPT ![r] = n.start]
    /\ end' = [end EXCEPT ![r] = n.end]
    /\ parsed' = [parsed EXCEPT ![r] = n.parsed]
    /\ err' = [err EXCEPT ![r] = n.err]
    /\ response' = [response EXCEPT ![r] = n.response]
    /\ upstreamCalls' = [upstreamCalls EXCEPT ![r] = n.upstreamCalls]
    /\ parseCalls' = [parseCalls EXCEPT ![r] = n.parseCalls]
    /\ sent' = [sent EXCEPT ![r] = n.sent]
    /\ corsHeaders' = corsHeaders

-----------------------------------------------------------------------------
(* The handler.  Each operator below is the code between two awaits: it     *)
(* takes the locals of an invocation and yields them as that code leaves    *)
(* them.                                                                    *)

\* return new Response(body, { status, headers: corsHeaders })
Return(l, status, body) ==
    [l EXCEPT !.pc = "done",
              !.response = [status |-> status, headers |-> corsHeaders, body |-> body],
              !.sent = @ + 1]

\* Routing, up to the first await of the route taken.
OnRequest(l, rq, e) ==
    LET l1 == [l EXCEPT !.request = rq, !.env = e]
    IN  IF rq.method = "OPTIONS" THEN Return(l1, 200, NullBody)
        ELSE IF rq.method = "GET" /\ rq.pathname = "/health"
        THEN Return(l1, 200, HealthBody)
        ELSE IF rq.method = "POST" /\ rq.pathname = "/analyze"
        THEN [l1 EXCEPT !.pc = "analyzeBody"]
        ELSE IF rq.method = "POST" /\ rq.pathname = "/analyze-contextual"
        THEN [l1 EXCEPT !.pc = "contextualBody"]
        ELSE Return(l1, 404, ErrorBody("Not Found"))

(* POST /analyze *)

\* A faulty variant of AnalyzeCatch: the response carries what was caught.
AnalyzeCatchLeaks(l, e) ==
    Return([l EXCEPT !.err = e], 500, ErrorBody(IF l.errText # "" THEN l.errText ELSE e))

\* catch (err) { ... } of /analyze
AnalyzeCatch(l, e) ==
    Return([l EXCEPT !.err = e], 500, ErrorBody("AI analysis failed"))

\* A faulty variant of AnalyzeBody: the API key is not checked before the call.
AnalyzeBodySkipsKeyCheck(l) ==
    IF ~l.request.body.valid THEN AnalyzeCatch(l, "SyntaxError")
    ELSE IF l.request.body.imageBase64 = ImageAbsent
    THEN Return(l, 400, ErrorBody("Image is required"))
    ELSE IF l.request.body.imageBase64 = ImageNotString THEN AnalyzeCatch(l, "TypeError")
    ELSE [l EXCEPT !.pc = "analyzeFetch", !.upstreamCalls = @ + 1]

\* After await req.json(): validation, then the call of fetch().  A truthy
\* imageBase64 that is no string makes imageBase64.replace throw while the
\* arguments of fetch() are built, before the call.
AnalyzeBody(l) ==
    LET body == l.request.body
    IN  IF ~body.valid THEN AnalyzeCatch(l, "SyntaxError")
        ELSE IF body.imageBase64 = ImageAbsent
        THEN Return(l, 400, ErrorBody("Image is required"))
        ELSE IF l.env = ""
        THEN Return(l, 500, ErrorBody("Gemini API key not set"))
        ELSE IF body.imageBase64 = ImageNotString THEN AnalyzeCatch(l, "TypeError")
        ELSE [l EXCEPT !.pc = "analyzeFetch", !.upstreamCalls = @ + 1]

\* After await fetch(...).
AnalyzeFetched(l, res) ==
    IF res = "throws" THEN AnalyzeCatch(l, "fetch failed")
    ELSE IF res = "not-ok" THEN [l EXCEPT !.geminiRes = res, !.pc = "analyzeText"]
    ELSE [l EXCEPT !.geminiRes = res, !.pc = "analyzeData"]

\* After await geminiRes.text() on a non-OK reply.
AnalyzeErrText(l, t) ==
    IF ~t.valid THEN AnalyzeCatch(l, "TypeError")
    ELSE AnalyzeCatch([l EXCEPT !.errText = t.text], "Gemini API error")

\* What the extraction of /analyze leaves: the two indexes, the error thrown
\* ("" when none), the result of JSON.parse and the number of calls of it.
AnalyzeExtracted(s, e, p, parses) ==
    [start |-> s, end |-> e,
     thrown |-> IF parses = 0 THEN "Invalid JSON output"
                ELSE IF p.ok THEN "" ELSE "SyntaxError",
     parsed |-> p, parses |-> parses]

\* A faulty variant of AnalyzeParse: only the index of '{' is checked.
AnalyzeParseChecksStartOnly(raw, s, e) ==
    IF s = -1 THEN AnalyzeExtracted(s, e, Fail, 0)
    ELSE AnalyzeExtracted(s, e, JSONParse(Slice(raw, s, e + 1)), 1)

\* const parsed = JSON.parse(rawText.slice(start, end + 1)), behind the check
\* of the two indexes.
AnalyzeParse(raw, s, e) ==
    IF s = -1 \/ e = -1 THEN AnalyzeExtracted(s, e, Fail, 0)
    ELSE AnalyzeExtracted(s, e, JSONParse(Slice(raw, s, e + 1)), 1)

\* The brace search and the parse of /analyze, on a non-empty rawText.
AnalyzeExtract(raw) == AnalyzeParse(raw, IndexOf(raw, LBRACE), LastIndexOf(raw, RBRACE))

\* The end of the try block of /analyze: the extraction x is stored in the
\* locals, and the parsed value is returned or the error thrown is caught.
AnalyzeReply(l, x) ==
    IF x.thrown # ""
    THEN AnalyzeCatch([l EXCEPT !.start = x.start, !.end = x.end, !.parsed = x.parsed,
                       !.parseCalls = @ + x.parses], x.thrown)
    ELSE Return([l EXCEPT !.start = x.start, !.end = x.end, !.parsed = x.parsed,
                          !.parseCalls = @ + x.parses], 200, ParsedBody(x.parsed.val))

\* The text of the reply: the empty check, then the extraction.
AnalyzeText(l, raw) ==
    IF raw = <<>> THEN AnalyzeCatch([l EXCEPT !.rawText = raw], "Empty Gemini response")
    ELSE AnalyzeReply([l EXCEPT !.rawText = raw], AnalyzeExtract(raw))

\* A faulty variant of AnalyzeData: the reply is kept in a module-level variable, and an
\* invocation uses the text another invocation stored there.
AnalyzeDataShared(l, d) ==
    IF ~d.valid THEN AnalyzeCatch(l, "SyntaxError")
    ELSE IF \E q \in Reqs : rawText[q] # <<>>
    THEN AnalyzeText([l EXCEPT !.data = d],
                     rawText[CHOOSE q \in Reqs : rawText[q] # <<>>])
    ELSE AnalyzeText([l EXCEPT !.data = d], RawTextOf(d))

\* After await geminiRes.json(): rawText, the empty check, extraction, reply.
AnalyzeData(l, d) ==
    IF ~d.valid THEN AnalyzeCatch(l, "SyntaxError")
    ELSE AnalyzeText([l EXCEPT !.data = d], RawTextOf(d))

(* POST /analyze-contextual *)

\* catch (err) { ... } of /analyze-contextual
ContextualCatch(l, e) ==
    Return([l EXCEPT !.err = e], 500, ContextualFallbackBody)

\* After await req.json(): validation, then the call of fetch().  The API key
\* is not checked on this route.
ContextualBody(l) ==
    LET body == l.request.body
    IN  IF ~body.valid THEN ContextualCatch(l, "SyntaxError")
        ELSE IF body.imageBase64 = ImageAbsent \/ body.context = ""
        THEN Return(l, 400, ErrorBody("imageBase64 dan context wajib diisi"))
        ELSE IF body.imageBase64 = ImageNotString THEN ContextualCatch(l, "TypeError")
        ELSE [l EXCEPT !.pc = "contextualFetch", !.upstreamCalls = @ + 1]

\* A faulty variant of ContextualFetched: a failed upstream call is made once more.
ContextualFetchedRetries(l, res) ==
    IF res = "throws" /\ l.upstreamCalls < 2
    THEN [l EXCEPT !.upstreamCalls = @ + 1]
    ELSE IF res = "throws" THEN ContextualCatch(l, "fetch failed")
    ELSE IF res = "not-ok" THEN [l EXCEPT !.geminiRes = res, !.pc = "contextualText"]
    ELSE [l EXCEPT !.geminiRes = res, !.pc = "contextualData"]

\* After await fetch(...).
ContextualFetched(l, res) ==
    IF res = "throws" THEN ContextualCatch(l, "fetch failed")
    ELSE IF res = "not-ok" THEN [l EXCEPT !.geminiRes = res, !.pc = "contextualText"]
    ELSE [l EXCEPT !.geminiRes = res, !.pc = "contextualData"]

\* After await geminiRes.text() on a non-OK reply.
ContextualErrText(l, t) ==
    IF ~t.valid THEN ContextualCatch(l, "TypeError")
    ELSE ContextualCatch([l EXCEPT !.errText = t.text], "Gemini API error")

\* What the extraction of /analyze-contextual leaves: the two indexes, the error thrown
\* ("" when none), the result of JSON.parse and the number of calls of it.
ContextualExtracted(s, e, p, parses) ==
    [start |-> s, end |-> e,
     thrown |-> IF parses = 0 THEN "Invalid JSON output"
                ELSE IF p.ok THEN "" ELSE "SyntaxError",
     parsed |-> p, parses |-> parses]

\* A faulty variant of ContextualParse: the whole text is parsed first, and the brace
\* search runs only when that fails.
ContextualParseWholeFirst(raw, s, e) ==
    IF JSONParse(raw).ok THEN ContextualExtracted(s, e, JSONParse(raw), 1)
    ELSE IF s = -1 \/ e = -1 THEN ContextualExtracted(s, e, Fail, 0)
    ELSE ContextualExtracted(s, e, JSONParse(Slice(raw, s, e + 1)), 1)

\* const parsed = JSON.parse(rawText.slice(start, end + 1)), behind the check
\* of the two indexes.
ContextualParse(raw, s, e) ==
    IF s = -1 \/ e = -1 THEN ContextualExtracted(s, e, Fail, 0)
    ELSE ContextualExtracted(s, e, JSONParse(Slice(raw, s, e + 1)), 1)

\* The brace search and the parse of /analyze-contextual, on a non-empty rawText.
ContextualExtract(raw) == ContextualParse(raw, IndexOf(raw, LBRACE), LastIndexOf(raw, RBRACE))

\* A faulty variant of ContextualReply: a parsed value that lacks the expected fields is
\* treated as a failure.
ContextualReplyValidates(l, x) ==
    IF x.thrown # "" \/ x.parsed.val.ks = <<>>
    THEN ContextualCatch([l EXCEPT !.start = x.start, !.end = x.end, !.parsed = x.parsed,
                                   !.parseCalls = @ + x.parses],
                         IF x.thrown # "" THEN x.thrown ELSE "Invalid shape")
    ELSE Return([l EXCEPT !.start = x.start, !.end = x.end, !.parsed = x.parsed,
                          !.parseCalls = @ + x.parses], 200, ParsedBody(x.parsed.val))

\* The end of the try block of /analyze-contextual: the extraction x is stored in the
\* locals, and the parsed value is returned or the error thrown is caught.
ContextualReply(l, x) ==
    IF x.thrown # ""
    THEN ContextualCatch([l EXCEPT !.start = x.start, !.end = x.end, !.parsed = x.parsed,
                       !.parseCalls = @ + x.parses], x.thrown)
    ELSE Return([l EXCEPT !.start = x.start, !.end = x.end, !.parsed = x.parsed,
                          !.parseCalls = @ + x.parses], 200, ParsedBody(x.parsed.val))

\* The text of the reply: the empty check, then the extraction.
ContextualText(l, raw) ==
    IF raw = <<>> THEN ContextualCatch([l EXCEPT !.rawText = raw], "Empty Gemini response")
    ELSE ContextualReply([l EXCEPT !.rawText = raw], ContextualExtract(raw))

\* After await geminiRes.json(): rawText, the empty check, extraction, reply.
ContextualData(l, d) ==
    IF ~d.valid THEN ContextualCatch(l, "SyntaxError")
    ELSE ContextualText([l EXCEPT !.data = d], RawTextOf(d))

-----------------------------------------------------------------------------
(* Actions: one per resumption of an invocation *)

Init ==
    /\ corsHeaders = CorsHeaders
    /\ pc = [r \in Reqs |-> Fresh.pc]
    /\ request = [r \in Reqs |-> Fresh.request]
    /\ env = [r \in Reqs |-> Fresh.env]
    /\ upstream = [r \in Reqs |-> Fresh.upstream]
    /\ geminiRes = [r \in Reqs |-> Fresh.geminiRes]
    /\ errText = [r \in Reqs |-> Fresh.errText]
    /\ data = [r \in Reqs |-> Fresh.data]
    /\ rawText = [r \in Reqs |-> Fresh.rawText]
    /\ start = [r \in Reqs |-> Fresh.start]
    /\ end = [r \in Reqs |-> Fresh.end]
    /\ parsed = [r \in Reqs |-> Fresh.parsed]
    /\ err = [r \in Reqs |-> Fresh.err]
    /\ response = [r \in Reqs |-> Fresh.response]
    /\ upstreamCalls = [r \in Reqs |-> Fresh.upstreamCalls]
    /\ parseCalls = [r \in Reqs |-> Fresh.parseCalls]
    /\ sent = [r \in Reqs |-> Fresh.sent]

\* fetch(req, env) is called.
Receive(r, rqs, es) ==
    /\ pc[r] = "idle"
    /\ \E rq \in rqs, e \in es :
        \E n \in {OnRequest(L(r), rq, e)} : Update(r, n)

\* await req.json() settles.
ReadBody(r) ==
    /\ pc[r] \in {"analyzeBody", "contextualBody"}
    /\ \E n \in {IF pc[r] = "analyzeBody" THEN AnalyzeBody(L(r))
                                          ELSE ContextualBody(L(r))} : Update(r, n)

\* await fetch(...) to the upstream settles.
FetchSettles(r) ==
    /\ pc[r] \in {"analyzeFetch", "contextualFetch"}
    /\ \E res \in FetchResults :
        \E l \in {[L(r) EXCEPT !.upstream.fetch = res]} :
            \E n \in {IF pc[r] = "analyzeFetch" THEN AnalyzeFetched(l, res)
                                                 ELSE ContextualFetched(l, res)} :
                Update(r, n)

\* await geminiRes.text() settles.
ReadErrText(r) ==
    /\ pc[r] \in {"analyzeText", "contextualText"}
    /\ \E t \in ErrTexts :
        \E l \in {[L(r) EXCEPT !.upstream.text = t]} :
            \E n \in {IF pc[r] = "analyzeText" THEN AnalyzeErrText(l, t)
                                                ELSE ContextualErrText(l, t)} :
                Update(r, n)

\* await geminiRes.json() settles.
ReadData(r, ds) ==
    /\ pc[r] \in {"analyzeData", "contextualData"}
    /\ \E d \in ds :
        \E l \in {[L(r) EXCEPT !.upstream.data = d]} :
            \E n \in {IF pc[r] = "analyzeData" THEN AnalyzeData(l, d)
                                                ELSE ContextualData(l, d)} :
                Update(r, n)

\* One request at a time, over the full inputs.
Next ==
    \E r \in {1} :
        \/ Receive(r, Requests, Envs)
        \/ ReadBody(r)
        \/ FetchSettles(r)
        \/ ReadErrText(r)
        \/ ReadData(r, Datas)

Spec == Init /\ [][Next]_vars

\* NumReqs requests in flight, their steps interleaved at the awaits.
ConcNext ==
    \E r \in Reqs :
        \/ Receive(r, ConcRequests, ConcEnvs)
        \/ ReadBody(r)
        \/ FetchSettles(r)
        \/ ReadErrText(r)
        \/ ReadData(r, ConcDatas)

\* Every await of a called handler settles: the runtime delivers the request
\* body, and the upstream call and the reads of its reply complete.
Fairness ==
    \A r \in Reqs :
        /\ WF_vars(ReadBody(r))
        /\ WF_vars(FetchSettles(r))
        /\ WF_vars(ReadErrText(r))
        /\ WF_vars(ReadData(r, ConcDatas))

ConcSpec == Init /\ [][ConcNext]_vars /\ Fairness

-----------------------------------------------------------------------------
(* Vocabulary of the properties.  These are stated from the inputs of an    *)
(* invocation (its request, its env and what the upstream gave it), not     *)
(* from the operators of the handler.                                       *)

Done(r) == pc[r] = "done"

OnAnalyze(r) == request[r].method = "POST" /\ request[r].pathname = "/analyze"

OnContextual(r) == request[r].method = "POST" /\ request[r].pathname = "/analyze-contextual"

\* The request passed the validation of its route.
Validated(r) ==
    /\ request[r].body.valid
    /\ request[r].body.imageBase64 # ImageAbsent
    /\ \/ OnAnalyze(r) /\ env[r] # ""
       \/ OnContextual(r) /\ request[r].body.context # ""

\* The upstream call returned OK and its body was read.
ReplyRead(r) ==
    /\ Validated(r)
    /\ request[r].body.imageBase64 = ImageData
    /\ upstream[r].fetch = "ok"
    /\ upstream[r].data.valid

\* The text fragments of a reply, joined with a newline.
RECURSIVE JoinedFrom(_, _)
JoinedFrom(parts, k) ==
    IF k = 0 THEN <<>>
    ELSE (IF k > 1 THEN JoinedFrom(parts, k - 1) \o <<NL>> ELSE <<>>)
         \o (IF parts[k].hasText THEN parts[k].text ELSE <<>>)

Joined(d) == IF d.hasParts THEN JoinedFrom(d.parts, Len(d.parts)) ELSE <<>>

Has(s, c) == \E i \in 1..Len(s) : s[i] = c

\* The substring from the first '{' through the last '}' inclusive (empty
\* when the last '}' lies before the first '{').
BraceSpan(s) ==
    LET first == CHOOSE i \in 1..Len(s) : s[i] = LBRACE /\ \A j \in 1..(i - 1) : s[j] # LBRACE
        last == CHOOSE i \in 1..Len(s) : s[i] = RBRACE /\ \A j \in (i + 1)..Len(s) : s[j] # RBRACE
    IN  [i \in 1..(IF last < first THEN 0 ELSE last - first + 1) |-> s[first + i - 1]]

HasBraces(s) == Has(s, LBRACE) /\ Has(s, RBRACE)

\* The brace-span extraction succeeds on s.
SpanParses(s) == HasBraces(s) /\ JSONParse(BraceSpan(s)).ok

\* The fixed fallback of the route of invocation r.
Fallback(r) ==
    IF OnAnalyze(r) THEN [shape |-> "error", error |-> "AI analysis failed"]
    ELSE [shape |-> "assessment", suitabilityScore |-> 0,
          relevanceExplanation |-> "Terjadi kegagalan analisis kontekstual.",
          actionableAdvice |-> <<>>, specificRisks |-> <<>>]

\* The 200 response carrying value v.
Passed(r, v) ==
    /\ response[r].status = 200
    /\ response[r].body.shape = "json"
    /\ response[r].body.json = JSONStringify(v)
    /\ JSONParse(response[r].body.json) = Ok(v, Len(response[r].body.json) + 1)

-----------------------------------------------------------------------------
(* Extraction *)

\* C1: whenever the text of an OK reply is valid JSON as a whole (an object,
\* an array, a number, a string), the handler answers 200 with exactly the
\* value of the parse of the whole text.
C1_WholeTextParsedFirst ==
    \A r \in Reqs :
        (Done(r) /\ ReplyRead(r) /\ JSONParse(Joined(upstream[r].data)).ok)
            => Passed(r, JSONParse(Joined(upstream[r].data)).val)

\* C2: whenever extraction succeeds on a text that is not valid JSON as a
\* whole, the value returned is the parse of the substring from the first '{'
\* through the last '}' of the joined text, and of no other substring.
C2_ValueComesFromBraceSpan ==
    \A r \in Reqs :
        (/\ Done(r)
         /\ OnAnalyze(r) \/ OnContextual(r)
         /\ response[r].status = 200
         /\ ~JSONParse(rawText[r]).ok)
            => /\ rawText[r] = Joined(upstream[r].data)
               /\ SpanParses(rawText[r])
               /\ parsed[r] = JSONParse(BraceSpan(rawText[r]))
               /\ Passed(r, JSONParse(BraceSpan(rawText[r])).val)

\* A value was recovered from text wrapped around the object.
C2_Witness ==
    \E r \in Reqs :
        /\ Done(r)
        /\ OnAnalyze(r) \/ OnContextual(r)
        /\ response[r].status = 200
        /\ ~JSONParse(rawText[r]).ok
        /\ BraceSpan(rawText[r]) # rawText[r]
        /\ Len(parsed[r].val.ks) = 1

\* C3 as claimed: when the whole text does not parse and holds no '{' or no
\* '}', the empty text included, the failure is no-json-found (the error
\* "Invalid JSON output") and nothing is parsed.
C3_NoBraceIsNoJsonFound ==
    \A r \in Reqs :
        (/\ Done(r)
         /\ ReplyRead(r)
         /\ ~JSONParse(Joined(upstream[r].data)).ok
         /\ ~HasBraces(Joined(upstream[r].data)))
            => /\ err[r] = "Invalid JSON output"
               /\ parseCalls[r] = 0
               /\ response[r].status = 500

\* C3 as amended: a non-empty text that does not parse as a whole and holds no
\* '{' or no '}' fails with no-json-found ("Invalid JSON output") and nothing
\* is parsed; the empty text is rejected before the brace search, with the
\* error "Empty Gemini response", and nothing is parsed either.
C3_NoBraceOrEmpty ==
    \A r \in Reqs :
        (/\ Done(r)
         /\ ReplyRead(r)
         /\ ~JSONParse(Joined(upstream[r].data)).ok
         /\ ~HasBraces(Joined(upstream[r].data)))
            => /\ err[r] = IF Joined(upstream[r].data) = <<>>
                           THEN "Empty Gemini response"
                           ELSE "Invalid JSON output"
               /\ parseCalls[r] = 0
               /\ response[r].status = 500
               /\ response[r].body = Fallback(r)

\* A text with a '{' and no '}' was rejected without a parse.
C3_Witness ==
    \E r \in Reqs :
        /\ Done(r)
        /\ ReplyRead(r)
        /\ Has(rawText[r], LBRACE)
        /\ ~Has(rawText[r], RBRACE)
        /\ err[r] = "Invalid JSON output"
        /\ parseCalls[r] = 0

\* C4: when the text holds both braces and the substring from the first '{'
\* through the last '}' is not valid JSON (an empty span and several objects
\* side by side included), the one parse fails with a SyntaxError, no value is
\* returned, and the response is the fallback.
C4_BadSpanIsParseError ==
    \A r \in Reqs :
        (/\ Done(r)
         /\ ReplyRead(r)
         /\ HasBraces(Joined(upstream[r].data))
         /\ ~JSONParse(BraceSpan(Joined(upstream[r].data))).ok)
            => /\ err[r] = "SyntaxError"
               /\ parseCalls[r] = 1
               /\ parsed[r] = Fail
               /\ response[r].status = 500
               /\ response[r].body = Fallback(r)

\* Two objects on two lines: neither is recovered.
C4_Witness ==
    \E r \in Reqs :
        LET o == <<LBRACE, QUOTE, "a", QUOTE, COLON, "1", RBRACE>>
        IN  /\ Done(r)
            /\ ReplyRead(r)
            /\ rawText[r] = o \o <<NL>> \o o
            /\ JSONParse(o).ok
            /\ err[r] = "SyntaxError"
            /\ response[r].status = 500

-----------------------------------------------------------------------------
(* Responses *)

\* The request was validated and is answered with a value.
Succeeded(r) ==
    /\ ReplyRead(r)
    /\ SpanParses(Joined(upstream[r].data))

\* C5: a validated POST to either route that fails afterwards (the upstream
\* call throws, its reply is non-OK or unreadable, the text is empty, holds no
\* braces or does not parse) is answered 500 with exactly the fallback of its
\* route, which holds neither the upstream error text nor the model's text.
C5_FailureIsFixedFallback ==
    \A r \in Reqs :
        (Done(r) /\ Validated(r) /\ ~Succeeded(r))
            => /\ response[r].status = 500
               /\ response[r].body = Fallback(r)
               /\ response[r].body.shape # "json"
               /\ \A t \in ErrTexts :
                    /\ response[r].body # ErrorBody(t.text)
                    /\ OnAnalyze(r) => response[r].body.error # t.text
               /\ err[r] # ""

\* A non-OK reply whose error text was read, answered with the fallback.
C5_Witness ==
    \E r \in Reqs :
        /\ Done(r)
        /\ Validated(r)
        /\ upstream[r].fetch = "not-ok"
        /\ errText[r] = "API key not valid"
        /\ response[r].status = 500

\* C6: when the upstream call returns OK and the brace-span extraction
\* succeeds on the fragments joined with a newline, the response is 200 and
\* its body is the extracted value, whatever its shape; and a POST to either
\* route is answered 200 only in that case.
C6_SuccessPassesValueThrough ==
    \A r \in Reqs :
        (Done(r) /\ (OnAnalyze(r) \/ OnContextual(r)))
            => /\ Succeeded(r)
                    => Passed(r, JSONParse(BraceSpan(Joined(upstream[r].data))).val)
               /\ response[r].status = 200 => Succeeded(r)

\* An object with none of the expected fields (the empty object, read from
\* three fragments) was passed through.
C6_Witness ==
    \E r \in Reqs :
        /\ Done(r)
        /\ OnContextual(r)
        /\ Len(upstream[r].data.parts) = 3
        /\ response[r].status = 200
        /\ response[r].body = [shape |-> "json", json |-> <<LBRACE, RBRACE>>]

\* C9: the upstream is called only for a validated request: a POST /analyze
\* without imageBase64 is answered 400, one with imageBase64 and no API key
\* 500 "Gemini API key not set", a POST /analyze-contextual without
\* imageBase64 or context 400, OPTIONS 200, GET /health 200 and any other
\* request 404, each without an upstream call or a parse.
C9_ValidationBeforeUpstream ==
    \A r \in Reqs :
        /\ (upstreamCalls[r] > 0 \/ parseCalls[r] > 0)
                => (Validated(r) /\ request[r].body.imageBase64 = ImageData)
        /\ (Done(r) /\ request[r].method = "OPTIONS")
                => response[r].status = 200 /\ response[r].body = [shape |-> "null"]
        /\ (Done(r) /\ request[r].method = "GET" /\ request[r].pathname = "/health")
                => response[r].status = 200 /\ response[r].body.shape = "health"
        /\ (Done(r) /\ request[r].method # "OPTIONS" /\ ~OnAnalyze(r) /\ ~OnContextual(r)
                    /\ ~(request[r].method = "GET" /\ request[r].pathname = "/health"))
                => response[r].status = 404
                   /\ response[r].body = [shape |-> "error", error |-> "Not Found"]
        /\ (Done(r) /\ OnAnalyze(r) /\ request[r].body.valid
                    /\ request[r].body.imageBase64 = ImageAbsent)
                => response[r].status = 400
                   /\ response[r].body = [shape |-> "error", error |-> "Image is required"]
        /\ (Done(r) /\ OnAnalyze(r) /\ request[r].body.valid
                    /\ request[r].body.imageBase64 # ImageAbsent /\ env[r] = "")
                => response[r].status = 500
                   /\ response[r].body = [shape |-> "error", error |-> "Gemini API key not set"]
        /\ (Done(r) /\ OnContextual(r) /\ request[r].body.valid
                    /\ (request[r].body.imageBase64 = ImageAbsent
                        \/ request[r].body.context = ""))
                => response[r].status = 400
                   /\ response[r].body =
                        [shape |-> "error", error |-> "imageBase64 dan context wajib diisi"]

\* A POST /analyze with an image and no API key was refused without a call.
C9_Witness ==
    \E r \in Reqs :
        /\ Done(r)
        /\ OnAnalyze(r)
        /\ request[r].body.imageBase64 = ImageData
        /\ env[r] = ""
        /\ response[r].status = 500
        /\ upstreamCalls[r] = 0

-----------------------------------------------------------------------------
(* Requests in flight together *)

\* C7, the part every state satisfies: an invocation calls the upstream at
\* most once, parses at most once, returns at most one response, has returned
\* one exactly when it is done, and is never left by an exception.
C7_Absorbed(r) ==
    /\ upstreamCalls[r] <= 1
    /\ parseCalls[r] <= 1
    /\ sent[r] <= 1
    /\ sent[r] = 1 <=> Done(r)
    /\ Done(r) <=> response[r] # NoResponse
    /\ Done(r) => response[r].status \in {200, 400, 404, 500}
    /\ pc[r] \in {"idle", "analyzeBody", "analyzeFetch", "analyzeText", "analyzeData",
                  "contextualBody", "contextualFetch", "contextualText",
                  "contextualData", "done"}

\* C7: every request is absorbed.  Provided the awaits of a called handler
\* settle, each request that arrives gets its response; in every state the
\* counts above hold; and once the response is returned (after a failure as
\* after a success) the invocation does nothing more.
C7_EveryRequestAbsorbed ==
    /\ [](\A r \in Reqs : C7_Absorbed(r))
    /\ [][\A r \in Reqs : Done(r) => L(r)' = L(r)]_vars
    /\ \A r \in Reqs : (pc[r] # "idle") ~> Done(r)

\* One request failed on its single upstream call and was answered, while
\* another one is still waiting for its own.
C7_Witness ==
    \E a, b \in Reqs :
        /\ Done(a)
        /\ upstream[a].fetch = "throws"
        /\ upstreamCalls[a] = 1
        /\ sent[a] = 1
        /\ response[a].status = 500
        /\ pc[b] = "analyzeFetch"

\* The response that the request, the env and the upstream reply of invocation
\* r determine.
Determined(r) ==
    IF request[r].method = "OPTIONS" THEN [status |-> 200, body |-> [shape |-> "null"]]
    ELSE IF request[r].method = "GET" /\ request[r].pathname = "/health"
    THEN [status |-> 200,
          body |-> [shape |-> "health", status |-> "ok", service |-> "grafotest-api"]]
    ELSE IF ~(OnAnalyze(r) \/ OnContextual(r))
    THEN [status |-> 404, body |-> [shape |-> "error", error |-> "Not Found"]]
    ELSE IF ~request[r].body.valid THEN [status |-> 500, body |-> Fallback(r)]
    ELSE IF OnAnalyze(r) /\ request[r].body.imageBase64 = ImageAbsent
    THEN [status |-> 400, body |-> [shape |-> "error", error |-> "Image is required"]]
    ELSE IF OnAnalyze(r) /\ env[r] = ""
    THEN [status |-> 500, body |-> [shape |-> "error", error |-> "Gemini API key not set"]]
    ELSE IF OnContextual(r) /\ (request[r].body.imageBase64 = ImageAbsent
                                \/ request[r].body.context = "")
    THEN [status |-> 400,
          body |-> [shape |-> "error", error |-> "imageBase64 dan context wajib diisi"]]
    ELSE IF Succeeded(r)
    THEN [status |-> 200,
          body |-> [shape |-> "json",
                    json |-> JSONStringify(JSONParse(BraceSpan(Joined(upstream[r].data))).val)]]
    ELSE [status |-> 500, body |-> Fallback(r)]

SameInputs(a, b) ==
    /\ request[a] = request[b]
    /\ env[a] = env[b]
    /\ upstream[a] = upstream[b]

\* C8, the part every state satisfies: the response of a finished invocation
\* is the one its own inputs determine; two invocations with the same inputs
\* have the same response, error and parse result; and two invocations that
\* extracted from the same text have the same parse result and error.
C8_Independent ==
    /\ \A r \in Reqs :
        Done(r) => /\ response[r].status = Determined(r).status
                   /\ response[r].body = Determined(r).body
                   /\ response[r].headers = CorsHeaders
    /\ \A a, b \in Reqs :
        (Done(a) /\ Done(b) /\ SameInputs(a, b))
            => response[a] = response[b] /\ err[a] = err[b] /\ parsed[a] = parsed[b]
    /\ \A a, b \in Reqs :
        (Done(a) /\ Done(b) /\ ReplyRead(a) /\ ReplyRead(b)
            /\ Joined(upstream[a].data) = Joined(upstream[b].data))
            => /\ parsed[a] = parsed[b]
               /\ err[a] = err[b]
               /\ response[a].status = response[b].status

\* C8: requests are independent in every interleaving: the state predicate
\* above always holds, and every step changes the locals of one invocation
\* only and leaves the shared corsHeaders as it is.
C8_RequestsIndependent ==
    /\ []C8_Independent
    /\ [][/\ corsHeaders' = corsHeaders
          /\ \E r \in Reqs : \A q \in Reqs \ {r} : L(q)' = L(q)]_vars

\* Two invocations read the same text, one before and one after the other was
\* answered, and hold the same value.
C8_Witness ==
    \E a, b \in Reqs :
        /\ a # b
        /\ Done(a) /\ Done(b)
        /\ OnAnalyze(a) /\ OnAnalyze(b)
        /\ rawText[a] # <<>>
        /\ rawText[a] = rawText[b]
        /\ response[a].status = 200
        /\ response[b].status = 200

\* C10: the two routes extract alike: given the same upstream reply, POST
\* /analyze and POST /analyze-contextual both answer 200 with the same body or
\* both fail, with the same error and parse result; and on every text read,
\* the extraction of one route equals the extraction of the other.
C10_RoutesExtractAlike ==
    /\ \A a, b \in Reqs :
        (/\ Done(a) /\ Done(b)
         /\ OnAnalyze(a) /\ OnContextual(b)
         /\ ReplyRead(a) /\ ReplyRead(b)
         /\ upstream[a].data = upstream[b].data)
            => /\ response[a].status = response[b].status
               /\ response[a].status = 200 => response[a].body = response[b].body
               /\ parsed[a] = parsed[b]
               /\ err[a] = err[b]
    /\ \A r \in Reqs :
        rawText[r] # <<>> => AnalyzeExtract(rawText[r]) = ContextualExtract(rawText[r])

\* The same reply, valid JSON as a whole but without braces, was refused on
\* both routes.
C10_Witness ==
    \E a, b \in Reqs :
        /\ Done(a) /\ Done(b)
        /\ OnAnalyze(a) /\ OnContextual(b)
        /\ ReplyRead(a) /\ ReplyRead(b)
        /\ upstream[a].data = upstream[b].data
        /\ JSONParse(rawText[a]).ok
        /\ response[a].status = 500
        /\ response[b].status = 500

====
